---- MODULE Spec2Model ----
(***************************************************************************)
(* Model of the Florida property scraper: the synthetic listing generator  *)
(* (scraper-standalone.cjs), the two HTTP handlers (api/scrape-v2.js and   *)
(* api/scrape.js), the sample generator of index.js they call, and the     *)
(* batch scraper of index.js (main, scrapeZillowWeb, saveToDatabase).      *)
(*                                                                         *)
(* Conventions.                                                            *)
(*  - A text is a sequence of tokens.  A token is one of the delimiter     *)
(*    characters the CSV code is sensitive to (comma, double quote, line   *)
(*    feed) or a maximal non-empty run of other characters, kept as one    *)
(*    string.  Concatenation of JS strings is \o on token sequences.       *)
(*  - The limit parameter is read by parseInt character by character, so   *)
(*    it is a sequence of one-character strings.                           *)
(*  - A JS number that may be NaN is a record [nan, val].                  *)
(*  - Math.random() is the process-wide generator: its state is rng and a  *)
(*    call returns the fraction k / RandDen, 0 <= k < RandDen.  Every      *)
(*    seed is an initial state.                                            *)
(*  - bathrooms is kept in half-bath units (2 * the JS value); latitude    *)
(*    and longitude in millionths of a degree; a school's distance as a    *)
(*    fraction num / den.  The scrapedAt time stamps are left out.         *)
(*  - A run of a handler or of main is one step; Complete ends it and      *)
(*    clears what the run left, so that the next run starts from the       *)
(*    process-wide state alone.                                            *)
(*  - The batch scraper runs in a process of its own (node index.js).  Its *)
(*    main() is a sequence of steps, one per awaited stage: a city of the  *)
(*    loop, the two files, the database, the statistics.  What the world   *)
(*    answers (the page Zillow serves, the file system, the database) is   *)
(*    an input of the step.  The table scraped_properties is the sequence  *)
(*    of its rows in insertion order; a column that holds NULL is left out *)
(*    of the row.  Time is the number of the run: a property built in a    *)
(*    run is stamped with it.                                              *)
(***************************************************************************)
EXTENDS Integers, Sequences, FiniteSets, TLC

VARIABLES rng, loaded, op, req, failure, sent, calls, generated, files,
          listing, stats, table, batch

\* the state of the process that serves the HTTP functions
httpVars == <<rng, loaded, op, req, failure, sent, calls, generated, files>>

\* index.js: the module-level counters, the table scraped_properties and the
\* run of main() in progress
batchVars == <<stats, table, batch>>

vars == <<httpVars, listing, batchVars>>

(***************************************************************************)
(* Bounds of the model                                                     *)
(***************************************************************************)
RandDen == 8

\* the grain of Math.random() where one iteration of the generator is taken
\* on its own
GenDen == 4096

\* the cities of the roster of index.js a run of main() is followed through
MaxCities == 2

\* the runs of main() a scheduler process is followed through
MaxRuns == 2

(***************************************************************************)
(* Texts                                                                   *)
(***************************************************************************)
COMMA == ","
QUOTE == "\""
NL == "\n"

T(s) == <<s>>

Absent == [present |-> FALSE, val |-> <<>>]
Given(v) == [present |-> TRUE, val |-> v]

\* JS truthiness of a query value: undefined and "" are falsy
Truthy(p) == p.present /\ p.val # <<>>

\* p || dflt for a query value
OrElse(p, dflt) == IF Truthy(p) THEN p.val ELSE dflt

\* destructuring default: applies to undefined only
Default(p, dflt) == IF p.present THEN p.val ELSE dflt

\* `${n}` for an integer
NumText(n) == T(ToString(n))

\* `${baths}` for a number kept in halves: 2 -> "1", 5 -> "2.5"
HalvesText(h) ==
    IF h % 2 = 0 THEN T(ToString(h \div 2)) ELSE T(ToString(h \div 2) \o ".5")

Quoted(t) == <<QUOTE>> \o t \o <<QUOTE>>

\* Array.prototype.join: parts[lo], sep, ..., sep, parts[hi], halving the
\* range so that the evaluation depth stays logarithmic
RECURSIVE JoinRange(_, _, _, _)
JoinRange(parts, lo, hi, sep) ==
    IF lo > hi THEN <<>>
    ELSE IF lo = hi THEN parts[lo]
    ELSE LET mid == (lo + hi) \div 2
         IN  JoinRange(parts, lo, mid, sep) \o sep \o JoinRange(parts, mid + 1, hi, sep)

Join(parts, sep) == JoinRange(parts, 1, Len(parts), sep)

\* String.prototype.split: the pieces of t between the occurrences of the
\* delimiter d, in order; the range is halved as in JoinRange
RECURSIVE SplitRange(_, _, _, _)
SplitRange(t, d, lo, hi) ==
    IF lo > hi THEN << <<>> >>
    ELSE IF lo = hi THEN (IF t[lo] = d THEN << <<>>, <<>> >> ELSE << <<t[lo]>> >>)
    ELSE LET mid == (lo + hi) \div 2
             a == SplitRange(t, d, lo, mid)
             b == SplitRange(t, d, mid + 1, hi)
         IN  SubSeq(a, 1, Len(a) - 1) \o << a[Len(a)] \o b[1] >> \o Tail(b)

Split(t, d) == SplitRange(t, d, 1, Len(t))

(***************************************************************************)
(* Numbers                                                                 *)
(***************************************************************************)
NaN == [nan |-> TRUE, val |-> 0]
Num(n) == [nan |-> FALSE, val |-> n]

\* i < count in JS: false when count is NaN
Less(i, count) == ~count.nan /\ i < count.val

\* x || d on a number: 0 and NaN are falsy
NumOr(x, d) == IF x.nan \/ x.val = 0 THEN d ELSE x.val

Whitespace == {" ", "\t", "\n"}

DigitVal ==
    [c \in {"0", "1", "2", "3", "4", "5", "6", "7", "8", "9",
            "a", "b", "c", "d", "e", "f", "A", "B", "C", "D", "E", "F"} |->
        CASE c = "0" -> 0 [] c = "1" -> 1 [] c = "2" -> 2 [] c = "3" -> 3
          [] c = "4" -> 4 [] c = "5" -> 5 [] c = "6" -> 6 [] c = "7" -> 7
          [] c = "8" -> 8 [] c = "9" -> 9
          [] c \in {"a", "A"} -> 10 [] c \in {"b", "B"} -> 11
          [] c \in {"c", "C"} -> 12 [] c \in {"d", "D"} -> 13
          [] c \in {"e", "E"} -> 14 [] c \in {"f", "F"} -> 15]

IsDigit(c, radix) == c \in DOMAIN DigitVal /\ DigitVal[c] < radix

RECURSIVE SkipSpace(_)
SkipSpace(cs) ==
    IF cs # <<>> /\ Head(cs) \in Whitespace THEN SkipSpace(Tail(cs)) ELSE cs

\* value of the longest prefix of digits; n counts the digits consumed
RECURSIVE Digits(_, _, _, _)
Digits(cs, radix, acc, n) ==
    IF cs # <<>> /\ IsDigit(Head(cs), radix)
    THEN Digits(Tail(cs), radix, acc * radix + DigitVal[Head(cs)], n + 1)
    ELSE [val |-> acc, n |-> n]

\* parseInt(string) with no radix argument (ECMAScript 19.2.5)
ParseInt(chars) ==
    LET s0 == SkipSpace(chars)
        neg == s0 # <<>> /\ Head(s0) = "-"
        s1 == IF s0 # <<>> /\ Head(s0) \in {"-", "+"} THEN Tail(s0) ELSE s0
        hex == Len(s1) >= 2 /\ s1[1] = "0" /\ s1[2] \in {"x", "X"}
        s2 == IF hex THEN Tail(Tail(s1)) ELSE s1
        d == Digits(s2, IF hex THEN 16 ELSE 10, 0, 0)
    IN  IF d.n = 0 THEN NaN ELSE Num(IF neg THEN 0 - d.val ELSE d.val)

(***************************************************************************)
(* Math.random()                                                           *)
(***************************************************************************)
\* numerator of the j-th value returned after state s
Draw(s, j) == (s + 5 * j) % RandDen

\* generator state after n calls
Advance(s, n) == (s + 5 * n) % RandDen

\* Math.floor(Math.random() * n) for the draw with numerator k
FloorMul(k, n) == (k * n) \div RandDen

\* Math.random() > 0.5
OverHalf(k) == 2 * k > RandDen

\* Math.floor(r * n) for r = k / den; n is split by den so that no
\* intermediate value exceeds n * den
FloorOf(k, den, n) == k * (n \div den) + (k * (n % den)) \div den

\* r > 0.5 for r = k / den
OverHalfOf(k, den) == 2 * k > den

\* (r * 0.5).toFixed(6) in millionths for r = k / den: 500000 * k / den
\* rounded to the nearest integer
Millionths(k, den) ==
    k * (500000 \div den) + (2 * k * (500000 % den) + den) \div (2 * den)

(***************************************************************************)
(* Products with a decimal literal in IEEE-754 double arithmetic           *)
(***************************************************************************)
\* The double a decimal literal num / den denotes is M / 2^(53 + shift) with
\* 2^52 <= M < 2^53 the nearest integer to num * 2^(53 + shift) / den; err is
\* M * den - num * 2^(53 + shift), negative when the double lies below the
\* literal.
rentRate == [num |-> 6, den |-> 1000, shift |-> 7, err |-> 144]
earlierPrice == [num |-> 105, den |-> 100, shift |-> 0 - 1, err |-> 20]
assessed2024 == [num |-> 85, den |-> 100, shift |-> 0, err |-> 0 - 20]
taxRate2024 == [num |-> 12, den |-> 1000, shift |-> 6, err |-> 144]
assessed2023 == [num |-> 82, den |-> 100, shift |-> 0, err |-> 0 - 44]
taxRate2023 == [num |-> 11, den |-> 1000, shift |-> 6, err |-> 0 - 368]

\* the exponent E of the binade below n: 2^E < n <= 2^(E+1), for n >= 2;
\* n is cut down by 16, 8, 4, 2 and 1 binary places at a time
RECURSIVE Binade(_)
Binade(n) ==
    IF n <= 2 THEN 0
    ELSE IF n > 65536 THEN 16 + Binade((n + 65535) \div 65536)
    ELSE IF n > 256 THEN 8 + Binade((n + 255) \div 256)
    ELSE IF n > 16 THEN 4 + Binade((n + 15) \div 16)
    ELSE IF n > 4 THEN 2 + Binade((n + 3) \div 4)
    ELSE 1 + Binade((n + 1) \div 2)

\* Math.floor(p * c) for an integer p and a literal c, as the double product
\* gives it.  When p * num / den is a whole number N and the double of c lies
\* below c, the product lies below N by p * |err| / (den * 2^(53 + shift));
\* it rounds to the double just under N, and the floor is N - 1, when that
\* exceeds half the spacing 2^(E - 52) of the doubles under N.  In every
\* other case the floor is that of the exact product.
FloorTimes(p, c) ==
    LET N == (p * c.num) \div c.den
    IN  IF /\ c.err < 0
           /\ (p * c.num) % c.den = 0
           /\ N >= 2
           /\ p * (0 - c.err) > c.den * 2 ^ (c.shift + Binade(N))
        THEN N - 1
        ELSE N

(***************************************************************************)
(* scraper-standalone.cjs: generateProperties                              *)
(***************************************************************************)
CITIES ==
    << T("Orlando"), T("Tampa"), T("Daytona Beach"), T("St. Petersburg"),
       T("Clearwater"), T("Lakeland"), T("Kissimmee"), T("Port Orange"),
       T("Sanford"), T("Oviedo"), T("Winter Park"), T("Altamonte Springs"),
       T("Deltona"), T("Palm Coast"), T("Titusville") >>

propertyTypes == << "Single Family", "Condo", "Townhouse", "Multi-Family" >>

\* String.prototype.toLowerCase on the four property types
LowerType(i) ==
    << "single family", "condo", "townhouse", "multi-family" >>[i]

streets ==
    << "Main St", "Oak Ave", "Palm Dr", "Lake View Blvd", "Sunset Way",
       "Beach Rd", "Pine St", "Maple Ave" >>

agents ==
    << [name |-> "John Smith", phone |-> "(407) 555-0101",
        email |-> "john.smith@realty.com", broker |-> "Keller Williams"],
       [name |-> "Sarah Johnson", phone |-> "(407) 555-0102",
        email |-> "sarah.j@remax.com", broker |-> "RE/MAX"],
       [name |-> "Mike Davis", phone |-> "(407) 555-0103",
        email |-> "mdavis@century21.com", broker |-> "Century 21"],
       [name |-> "Emily Brown", phone |-> "(407) 555-0104",
        email |-> "ebrown@coldwell.com", broker |-> "Coldwell Banker"] >>

images ==
    << "https://images.unsplash.com/photo-1568605114967-8130f3a36994?w=800&q=80",
       "https://images.unsplash.com/photo-1570129477492-45c003edd2be?w=800&q=80",
       "https://images.unsplash.com/photo-1564013799919-ab600027ffc6?w=800&q=80",
       "https://images.unsplash.com/photo-1600596542815-ffad4c1539a9?w=800&q=80" >>

\* the description template of line 67
Description(city, beds, bathsHalves, typeIx, sqft, renovated) ==
    T("Beautiful " \o ToString(beds) \o " bedroom") \o <<COMMA>>
    \o T(" ") \o HalvesText(bathsHalves) \o T(" bathroom " \o LowerType(typeIx) \o " in ")
    \o city
    \o T(". This stunning property features " \o ToString(sqft)
         \o " sq ft of living space with modern amenities")
    \o <<COMMA>> \o T(" updated kitchen") \o <<COMMA>>
    \o T(" and spacious living areas. Great location close to schools")
    \o <<COMMA>> \o T(" shopping") \o <<COMMA>> \o T(" and entertainment. "
         \o (IF renovated
             THEN "Recently renovated with new appliances and flooring."
             ELSE "Move-in ready with excellent curb appeal.")
         \o " Perfect for "
         \o (IF beds >= 4 THEN "large families"
                          ELSE "first-time buyers or investors")
         \o ".")

\* the bug of a range that takes in the year after the last one
yearBuiltThrough2024(k, den) == 1980 + FloorOf(k, den, 45)

\* line 55
yearBuilt(k, den) == 1980 + FloorOf(k, den, 44)

\* line 59 with a fee that reaches 350
hoaFeeThrough350(k, den) == FloorOf(k, den, 301) + 50

\* line 59: Math.floor(Math.random() * 300) + 50 for the draw k / den
hoaFeeOf(k, den) == FloorOf(k, den, 300) + 50

\* line 37 rounding to the nearest thousand
priceRounded(sqft, k, den) ==
    ((sqft * 3 * (den + k) + 10 * den) \div (20 * den)) * 1000

\* line 37: Math.floor((sqft * (150 + r * 150)) / 1000) * 1000 for the draw
\* r = k / den, i.e. sqft * 150 * (den + k) / (1000 * den) rounded down
priceOf(sqft, k, den) == ((sqft * 3 * (den + k)) \div (20 * den)) * 1000

\* One iteration of the loop of lines 33-91 on the values Math.random()
\* returns: d[j] / den is the j-th value, the calls numbered in evaluation
\* order.  The second call of the hoaFee line happens only when the first
\* exceeded 0.5, which shifts the later ones by x; used is the number of
\* calls made.  150 / 1000 of the price line is taken as 3 / 20, and
\* price * (0.95 + r * 0.1) is taken on price / 1000, which the price line
\* makes a whole number.
PropertyOf(city, d, den) ==
    LET beds == 2 + FloorOf(d[1], den, 4)
        baths == 2 * (1 + FloorOf(d[2], den, 3))
                   + (IF OverHalfOf(d[3], den) THEN 1 ELSE 0)
        sqft == 1000 + FloorOf(d[4], den, 2500)
        price == priceOf(sqft, d[5], den)
        agent == agents[1 + FloorOf(d[6], den, Len(agents))]
        hasHoa == OverHalfOf(d[18], den)
        x == IF hasHoa THEN 1 ELSE 0
    IN  [ rec |->
            [ propertyId |-> T("ZPID" \o ToString(FloorOf(d[7], den, 100000000))),
              mlsId |-> T("MLS" \o ToString(FloorOf(d[8], den, 1000000))),
              streetAddress |->
                  T(ToString(100 + FloorOf(d[9], den, 9900)) \o " "
                    \o streets[1 + FloorOf(d[10], den, Len(streets))]),
              city |-> city,
              state |-> T("FL"),
              zipCode |-> NumText(32700 + FloorOf(d[11], den, 1000)),
              latitude |-> 28500000 + Millionths(d[12], den),
              longitude |-> Millionths(d[13], den) - 81400000,
              price |-> price,
              bedrooms |-> beds,
              bathrooms |-> baths,
              sqft |-> sqft,
              lotSize |-> (sqft * (2 * den + 3 * d[14])) \div den,
              yearBuilt |-> yearBuilt(d[15], den),
              propertyType |-> T(propertyTypes[1 + FloorOf(d[16], den, Len(propertyTypes))]),
              listingStatus |-> T("FOR_SALE"),
              daysOnMarket |-> FloorOf(d[17], den, 90),
              hoaFee |-> IF hasHoa
                         THEN [null |-> FALSE, val |-> hoaFeeOf(d[19], den)]
                         ELSE [null |-> TRUE, val |-> 0],
              images |-> images,
              thumbnailUrl |->
                  "https://images.unsplash.com/photo-1568605114967-8130f3a36994?w=400&q=80",
              description |->
                  Description(city, beds, baths,
                              1 + FloorOf(d[19 + x], den, Len(propertyTypes)),
                              sqft, OverHalfOf(d[20 + x], den)),
              agentName |-> agent.name,
              agentPhone |-> agent.phone,
              agentEmail |-> agent.email,
              brokerName |-> agent.broker,
              zestimate |-> (price \div 1000) * 950
                              + ((price \div 1000) * 100 * d[21 + x]) \div den,
              rentZestimate |-> FloorTimes(price, rentRate),
              priceHistory |->
                  << [date |-> "2024-11-01", price |-> price, event |-> "Listed for sale"],
                     [date |-> "2024-10-15", price |-> FloorTimes(price, earlierPrice),
                      event |-> "Price change"] >>,
              taxHistory |->
                  << [year |-> 2024, value |-> FloorTimes(price, assessed2024),
                      tax |-> FloorTimes(price, taxRate2024)],
                     [year |-> 2023, value |-> FloorTimes(price, assessed2023),
                      tax |-> FloorTimes(price, taxRate2023)] >>,
              schools |->
                  << [name |-> city \o T(" Elementary School"),
                      rating |-> 7 + FloorOf(d[22 + x], den, 3),
                      distance |-> [num |-> den + 4 * d[23 + x], den |-> 2 * den],
                      grades |-> "K-5"],
                     [name |-> city \o T(" Middle School"),
                      rating |-> 6 + FloorOf(d[24 + x], den, 4),
                      distance |-> [num |-> den + 3 * d[25 + x], den |-> den],
                      grades |-> "6-8"],
                     [name |-> city \o T(" High School"),
                      rating |-> 7 + FloorOf(d[26 + x], den, 3),
                      distance |-> [num |-> 2 * den + 4 * d[27 + x], den |-> den],
                      grades |-> "9-12"] >>,
              dataSource |-> "sample-generator",
              isActive |-> TRUE ],
          used |-> 27 + x ]

\* the bug of replacing a city that is not in the roster by the first one
PropertyRosterOnly(city, s) ==
    LET known == \E i \in 1..Len(CITIES) : CITIES[i] = city
        p == PropertyOf(IF known THEN city ELSE CITIES[1],
                        [j \in 1..28 |-> Draw(s, j)], RandDen)
    IN  [rec |-> p.rec, rng |-> Advance(s, p.used)]

\* the iteration started with the process-wide generator in state s
Property(city, s) ==
    LET p == PropertyOf(city, [j \in 1..28 |-> Draw(s, j)], RandDen)
    IN  [rec |-> p.rec, rng |-> Advance(s, p.used)]

\* the bug of looping while i <= count
IterationsInclusive(count) == IF Less(0 - 1, count) THEN count.val + 1 ELSE 0

\* number of iterations of `for (let i = 0; i < count; i++)`
Iterations(count) == IF Less(0, count) THEN count.val ELSE 0

\* iterations lo .. hi-1 of the loop, in order, from generator state s; the
\* range is halved so that the evaluation depth stays logarithmic
RECURSIVE GenRange(_, _, _, _)
GenRange(city, lo, hi, s) ==
    IF hi <= lo THEN [props |-> <<>>, rng |-> s]
    ELSE IF hi = lo + 1
    THEN LET p == Property(city, s) IN [props |-> <<p.rec>>, rng |-> p.rng]
    ELSE LET mid == (lo + hi) \div 2
             a == GenRange(city, lo, mid, s)
             b == GenRange(city, mid, hi, a.rng)
         IN  [props |-> a.props \o b.props, rng |-> b.rng]

\* the bug of dropping a record whose street address repeats an earlier
\* one of the same call
generatePropertiesDistinct(city, count, s) ==
    LET g == GenRange(city, 0, Iterations(count), s)
        keep == {i \in 1..Len(g.props) :
                    \A j \in 1..(i - 1) :
                        g.props[j].streetAddress # g.props[i].streetAddress}
        Nth(k) == CHOOSE i \in keep : Cardinality({j \in keep : j <= i}) = k
    IN  [props |-> [k \in 1..Cardinality(keep) |-> g.props[Nth(k)]], rng |-> g.rng]

\* generateProperties(city, count): the records and the generator state left
generateProperties(city, count, s) == GenRange(city, 0, Iterations(count), s)

(***************************************************************************)
(* HTTP requests and responses                                             *)
(***************************************************************************)
NoHeaders ==
    [acao |-> "", acam |-> "", acah |-> "", contentType |-> "",
     contentDisposition |-> <<>>]

\* the bug of leaving Access-Control-Allow-Origin out
CorsNoOrigin(h) == [h EXCEPT !.acam = "GET, OPTIONS", !.acah = "Content-Type"]

\* the three setHeader calls both handlers make first
Cors(h) ==
    [h EXCEPT !.acao = "*", !.acam = "GET, OPTIONS", !.acah = "Content-Type"]

\* res.status(n).end()
End(status, h) == [status |-> status, headers |-> h, kind |-> "end", body |-> <<>>]

\* res.status(n).json(body)
Json(status, h, body) ==
    [status |-> status, headers |-> [h EXCEPT !.contentType = "application/json"],
     kind |-> "json", body |-> body]

\* res.status(n).send(text)
Send(status, h, text) == [status |-> status, headers |-> h, kind |-> "send", body |-> text]

\* a call of a generator, as the handler made it
Call(fn, city, count, n) == [fn |-> fn, city |-> city, count |-> count, returned |-> n]

\* what one run of a handler or of main leaves behind
Outcome(responses, log, props, s) ==
    [sent |-> responses, calls |-> log, generated |-> props, rng |-> s]

(***************************************************************************)
(* api/scrape-v2.js                                                        *)
(***************************************************************************)
\* the bug of letting POST through
MethodAllowedPost(m) == m \in {"GET", "POST"}

\* lines 26 of scrape-v2.js and 29 of scrape.js: the test behind the 405
MethodAllowed(m) == m = "GET"

\* line 32 with a limit under 1 replaced by 10 as well
maxPropertiesPositive(q) ==
    IF NumOr(ParseInt(Default(q.limit, <<"1", "0">>)), 10) < 1 THEN 10
    ELSE NumOr(ParseInt(Default(q.limit, <<"1", "0">>)), 10)

\* line 32: parseInt(limit) || 10, limit defaulting to '10'
maxProperties(q) == NumOr(ParseInt(Default(q.limit, <<"1", "0">>)), 10)

\* the bug of testing `if (all)` instead of `all === 'true'`
AllModeLoose(q) == Truthy(q.all)

\* line 36
AllMode(q) == q.all.present /\ q.all.val = T("true")

\* lines 38-40: one generator call per roster city, results appended in order
RECURSIVE AllCities(_, _, _, _, _)
AllCities(i, count, s, acc, log) ==
    IF i > Len(CITIES) THEN [props |-> acc, rng |-> s, calls |-> log]
    ELSE LET g == generateProperties(CITIES[i], Num(count), s)
         IN  AllCities(i + 1, count, g.rng, acc \o g.props,
                       Append(log, Call("generateProperties", CITIES[i],
                                        Num(count), Len(g.props))))

csvHeader ==
    << "Property ID", COMMA, "MLS ID", COMMA, "Address", COMMA, "City", COMMA,
       "State", COMMA, "ZIP", COMMA, "Price", COMMA, "Beds", COMMA, "Baths",
       COMMA, "SqFt", COMMA, "Type", COMMA, "Year", COMMA, "Status", NL >>

\* the bug of a row template that leaves the State column out
CsvRowNoState(p) ==
    Quoted(p.propertyId) \o <<COMMA>> \o Quoted(p.mlsId) \o <<COMMA>>
    \o Quoted(p.streetAddress) \o <<COMMA>> \o Quoted(p.city) \o <<COMMA>>
    \o Quoted(p.zipCode) \o <<COMMA>>
    \o NumText(p.price) \o <<COMMA>> \o NumText(p.bedrooms) \o <<COMMA>>
    \o HalvesText(p.bathrooms) \o <<COMMA>> \o NumText(p.sqft) \o <<COMMA>>
    \o Quoted(p.propertyType) \o <<COMMA>> \o NumText(p.yearBuilt) \o <<COMMA>>
    \o Quoted(p.listingStatus)

\* line 58: the template of one CSV row
CsvRow(p) ==
    Quoted(p.propertyId) \o <<COMMA>> \o Quoted(p.mlsId) \o <<COMMA>>
    \o Quoted(p.streetAddress) \o <<COMMA>> \o Quoted(p.city) \o <<COMMA>>
    \o Quoted(p.state) \o <<COMMA>> \o Quoted(p.zipCode) \o <<COMMA>>
    \o NumText(p.price) \o <<COMMA>> \o NumText(p.bedrooms) \o <<COMMA>>
    \o HalvesText(p.bathrooms) \o <<COMMA>> \o NumText(p.sqft) \o <<COMMA>>
    \o Quoted(p.propertyType) \o <<COMMA>> \o NumText(p.yearBuilt) \o <<COMMA>>
    \o Quoted(p.listingStatus)

\* lines 57-59: properties.map(row).join('\n')
csvRows(props) == Join([i \in 1..Len(props) |-> CsvRow(props[i])], <<NL>>)

\* line 69 and the file name of line 62: city || 'all'
CityToken(q) == OrElse(q.city, T("all"))

\* lines 55-71
Render(q, h, props) ==
    IF Default(q.format, T("json")) = T("csv")
    THEN Send(200,
              [h EXCEPT !.contentType = "text/csv",
                        !.contentDisposition =
                            T("attachment; filename=") \o <<QUOTE>>
                            \o T("properties-") \o CityToken(q) \o T(".csv")
                            \o <<QUOTE>>],
              csvHeader \o csvRows(props))
    ELSE Json(200, h,
              [success |-> TRUE, count |-> Len(props), city |-> CityToken(q),
               properties |-> props])

\* the bug of answering a caught error with a fixed text
CaughtGeneric(h, message) ==
    Json(500, h, [success |-> FALSE, error |-> "Internal server error"])

\* lines 73-79
Caught(h, message) == Json(500, h, [success |-> FALSE, error |-> message])

\* lines 45-51
Usage(h) ==
    Json(400, h,
         [error |-> "Missing parameter",
          usage |-> [single |-> "/api/scrape-v2?city=Orlando&limit=50",
                     all |-> "/api/scrape-v2?all=true&limit=10"]])

\* The handler of lines 16-80 on request r with the random generator in
\* state s.  fault names the runtime error the engine raises inside the try
\* block, if any: "push" is the RangeError of the spread call of line 39,
\* "serialize" the one of building the response text.
HandlerV2(r, s, fault) ==
    LET h == Cors(NoHeaders)
        q == r.query
        n == maxProperties(q)
    IN  IF r.method = "OPTIONS" THEN Outcome(<<End(200, h)>>, <<>>, <<>>, s)
        ELSE IF ~MethodAllowed(r.method)
        THEN Outcome(<<Json(405, h, [error |-> "Method not allowed"])>>, <<>>, <<>>, s)
        ELSE IF AllMode(q)
        THEN IF fault = "push"
             THEN LET g == generateProperties(CITIES[1], Num(n), s)
                  IN  Outcome(<<Caught(h, "Maximum call stack size exceeded")>>,
                              <<Call("generateProperties", CITIES[1], Num(n), Len(g.props))>>,
                              <<>>, g.rng)
             ELSE LET a == AllCities(1, n, s, <<>>, <<>>)
                  IN  IF fault = "serialize"
                      THEN Outcome(<<Caught(h, "Invalid string length")>>,
                                   a.calls, a.props, a.rng)
                      ELSE Outcome(<<Render(q, h, a.props)>>, a.calls, a.props, a.rng)
        ELSE IF Truthy(q.city)
        THEN LET g == generateProperties(q.city.val, Num(n), s)
                 log == <<Call("generateProperties", q.city.val, Num(n), Len(g.props))>>
             IN  IF fault = "serialize"
                 THEN Outcome(<<Caught(h, "Invalid string length")>>, log, g.props, g.rng)
                 ELSE Outcome(<<Render(q, h, g.props)>>, log, g.props, g.rng)
        ELSE Outcome(<<Usage(h)>>, <<>>, <<>>, s)

(***************************************************************************)
(* index.js: generateSampleProperties                                      *)
(***************************************************************************)
streetNames == << "Oak", "Maple", "Pine", "Cedar", "Elm", "Palm", "Lake", "Bay" >>

streetTypes == << "Dr", "St", "Ave", "Blvd", "Ln", "Way" >>

sampleTypes == << "House", "Condo", "Townhouse" >>

\* Iteration i of the loop of lines 235-257 of index.js, from generator
\* state s: nine calls of Math.random() in evaluation order.  The link and
\* the image URL are kept by the index they embed.
SampleProperty(city, i, s) ==
    [ rec |->
        [ source |-> T("generated"),
          address |->
              T(ToString(FloorMul(Draw(s, 5), 9000) + 1000) \o " "
                \o streetNames[1 + FloorMul(Draw(s, 6), Len(streetNames))] \o " "
                \o streetTypes[1 + FloorMul(Draw(s, 7), Len(streetTypes))]),
          city |-> city.name,
          state |-> city.state,
          zipCode |-> city.zip,
          price |-> FloorMul(Draw(s, 4), 400000) + 200000,
          beds |-> FloorMul(Draw(s, 1), 4) + 1,
          baths |-> FloorMul(Draw(s, 2), 3) + 1,
          sqft |-> FloorMul(Draw(s, 3), 2000) + 1000,
          propertyType |-> T(sampleTypes[1 + FloorMul(Draw(s, 8), 3)]),
          yearBuilt |-> FloorMul(Draw(s, 9), 40) + 1980,
          link |-> [base |-> "https://example.com/property/", index |-> i],
          imageUrl |-> [base |-> "https://images.unsplash.com/photo-1568605114967",
                        plus |-> i] ],
      rng |-> Advance(s, 9) ]

RECURSIVE SampleRange(_, _, _, _)
SampleRange(city, lo, hi, s) ==
    IF hi <= lo THEN [props |-> <<>>, rng |-> s]
    ELSE IF hi = lo + 1
    THEN LET p == SampleProperty(city, lo, s) IN [props |-> <<p.rec>>, rng |-> p.rng]
    ELSE LET mid == (lo + hi) \div 2
             a == SampleRange(city, lo, mid, s)
             b == SampleRange(city, mid, hi, a.rng)
         IN  [props |-> a.props \o b.props, rng |-> b.rng]

\* generateSampleProperties(city, count)
generateSampleProperties(city, count, s) == SampleRange(city, 0, Iterations(count), s)

(***************************************************************************)
(* api/scrape.js                                                           *)
(***************************************************************************)
\* lines 35-39
sampleCity(q) ==
    [name |-> OrElse(q.city, T("Orlando")), state |-> T("FL"), zip |-> T("32801")]

\* line 41 with the fallback of scrape-v2.js: parseInt(limit) || 10
SampleCountOr10(q) == Num(NumOr(ParseInt(Default(q.limit, <<"1", "0">>)), 10))

\* line 41: parseInt(limit), limit defaulting to the number 10
SampleCount(q) == ParseInt(Default(q.limit, <<"1", "0">>))

\* lines 44-53
SampleCsv(props) ==
    Join(<< <<"Address", COMMA, "City", COMMA, "State", COMMA, "ZIP", COMMA,
              "Price", COMMA, "Beds", COMMA, "Baths", COMMA, "SqFt", COMMA,
              "Type", COMMA, "Source">> >>
         \o [i \in 1..Len(props) |->
               LET p == props[i]
               IN  Join(<< Quoted(p.address), Quoted(p.city), Quoted(p.state),
                           Quoted(p.zipCode), Quoted(NumText(p.price)),
                           Quoted(NumText(p.beds)), Quoted(NumText(p.baths)),
                           Quoted(NumText(p.sqft)), Quoted(p.propertyType),
                           Quoted(p.source) >>, <<COMMA>>)],
         <<NL>>)

\* lines 43-65
SampleRender(q, h, props) ==
    IF Default(q.format, T("json")) = T("csv")
    THEN Send(200,
              [h EXCEPT !.contentType = "text/csv",
                        !.contentDisposition =
                            T("attachment; filename=") \o <<QUOTE>>
                            \o T("properties-") \o sampleCity(q).name \o T(".csv")
                            \o <<QUOTE>>],
              SampleCsv(props))
    ELSE Json(200, h,
              [success |-> TRUE, city |-> sampleCity(q).name, count |-> Len(props),
               properties |-> props])

\* The handler of lines 15-74 on request r.  The whole body is inside the
\* try block; fault "serialize" is the engine's error while the response
\* text is built.
HandlerV1(r, s, fault) ==
    LET h == Cors(NoHeaders)
        q == r.query
    IN  IF r.method = "OPTIONS" THEN Outcome(<<End(200, h)>>, <<>>, <<>>, s)
        ELSE IF ~MethodAllowed(r.method)
        THEN Outcome(<<Json(405, h, [error |-> "Method not allowed"])>>, <<>>, <<>>, s)
        ELSE LET g == generateSampleProperties(sampleCity(q), SampleCount(q), s)
                 log == <<Call("generateSampleProperties", sampleCity(q).name,
                               SampleCount(q), Len(g.props))>>
             IN  IF fault = "serialize"
                 THEN Outcome(<<Caught(h, "Invalid string length")>>, log, g.props, g.rng)
                 ELSE Outcome(<<SampleRender(q, h, g.props)>>, log, g.props, g.rng)

(***************************************************************************)
(* scraper-standalone.cjs: main, run when the module is loaded             *)
(***************************************************************************)
\* lines 114-119: one generator call per city, results appended in order
RECURSIVE MainCities(_, _, _, _, _, _)
MainCities(cities, i, limit, s, acc, log) ==
    IF i > Len(cities) THEN [props |-> acc, rng |-> s, calls |-> log]
    ELSE LET g == generateProperties(cities[i], limit, s)
         IN  MainCities(cities, i + 1, limit, g.rng, acc \o g.props,
                        Append(log, Call("generateProperties", cities[i], limit,
                                         Len(g.props))))

\* line 131: the template of one row of the exported CSV file
MainCsvRow(p) ==
    CsvRow(p) \o <<COMMA>> \o Quoted(T(p.agentName)) \o <<COMMA>>
    \o Quoted(T(p.agentPhone)) \o <<COMMA>> \o Quoted(T(p.brokerName))

\* lines 129-133
MainCsv(props) ==
    SubSeq(csvHeader, 1, Len(csvHeader) - 1)
    \o <<COMMA, "Agent", COMMA, "Phone", COMMA, "Broker", NL>>
    \o Join([i \in 1..Len(props) |-> MainCsvRow(props[i])], <<NL>>)

\* line 106: cityArg.split('=')[1].replace(/"/g, '')
CliCity(arg) == SelectSeq(Split(arg, "=")[2], LAMBDA c : c # QUOTE)

\* line 107: parseInt(limitArg.split('=')[1])
CliLimit(arg) == ParseInt(Split(arg, "=")[2])

\* main() of lines 97-143 with the command line a and the file system
\* writable or not; a.city and a.limit are the arguments that start with
\* --city= and --limit=, if any.  The first writeFileSync that fails ends
\* main (line 145 logs the rejection).
Main(a, writable, s) ==
    LET cities == IF a.city.present THEN <<CliCity(a.city.val)>> ELSE CITIES
        limit == IF a.limit.present THEN CliLimit(a.limit.val) ELSE Num(10)
        m == MainCities(cities, 1, limit, s, <<>>, <<>>)
    IN  [ sent |-> <<>>, calls |-> m.calls, generated |-> m.props, rng |-> m.rng,
          files |-> IF writable
                    THEN << [file |-> "properties-<date>.json", content |-> m.props],
                            [file |-> "properties-<date>.csv", content |-> MainCsv(m.props)] >>
                    ELSE <<>> ]

(***************************************************************************)
(* index.js: the batch scraper                                             *)
(***************************************************************************)
\* CONFIG.scraper.retries; no line of index.js reads it
retries == 3

\* CITIES of index.js
IndexCITIES ==
    << [name |-> T("Orlando"), state |-> T("FL"), zip |-> T("32801"), county |-> "Orange"],
       [name |-> T("Tampa"), state |-> T("FL"), zip |-> T("33601"), county |-> "Hillsborough"],
       [name |-> T("Daytona Beach"), state |-> T("FL"), zip |-> T("32114"), county |-> "Volusia"],
       [name |-> T("St. Petersburg"), state |-> T("FL"), zip |-> T("33701"), county |-> "Pinellas"],
       [name |-> T("Clearwater"), state |-> T("FL"), zip |-> T("33755"), county |-> "Pinellas"],
       [name |-> T("Lakeland"), state |-> T("FL"), zip |-> T("33801"), county |-> "Polk"],
       [name |-> T("Kissimmee"), state |-> T("FL"), zip |-> T("34741"), county |-> "Osceola"],
       [name |-> T("Winter Park"), state |-> T("FL"), zip |-> T("32789"), county |-> "Orange"],
       [name |-> T("Sanford"), state |-> T("FL"), zip |-> T("32771"), county |-> "Seminole"],
       [name |-> T("Deltona"), state |-> T("FL"), zip |-> T("32725"), county |-> "Volusia"],
       [name |-> T("Palm Coast"), state |-> T("FL"), zip |-> T("32135"), county |-> "Flagler"],
       [name |-> T("Port Orange"), state |-> T("FL"), zip |-> T("32127"), county |-> "Volusia"],
       [name |-> T("Altamonte Springs"), state |-> T("FL"), zip |-> T("32701"), county |-> "Seminole"],
       [name |-> T("Oviedo"), state |-> T("FL"), zip |-> T("32765"), county |-> "Seminole"],
       [name |-> T("Winter Haven"), state |-> T("FL"), zip |-> T("33880"), county |-> "Polk"] >>

\* the cities the loop of main() is followed through: the head of CITIES
BatchCities == SubSeq(IndexCITIES, 1, MaxCities)

\* stats as the module is loaded
NoStats ==
    [ total |-> 0, success |-> 0, failed |-> 0, duplicates |-> 0,
      sources |-> [zillow |-> 0, realtor |-> 0, redfin |-> 0, trulia |-> 0] ]

Reverse(cs) == [i \in 1..Len(cs) |-> cs[Len(cs) + 1 - i]]

\* String.prototype.trim on a sequence of characters
Trim(cs) == Reverse(SkipSpace(Reverse(SkipSpace(cs))))

\* text.replace(/[^0-9]/g, '')
DigitsOnly(cs) == SelectSeq(cs, LAMBDA c : IsDigit(c, 10))

\* parseFloat on a text whose number has neither fraction nor exponent:
\* the longest decimal prefix, with no hexadecimal form
ParseFloat(chars) ==
    LET s0 == SkipSpace(chars)
        neg == s0 # <<>> /\ Head(s0) = "-"
        s1 == IF s0 # <<>> /\ Head(s0) \in {"-", "+"} THEN Tail(s0) ELSE s0
        d == Digits(s1, 10, 0, 0)
    IN  IF d.n = 0 THEN NaN ELSE Num(IF neg THEN 0 - d.val ELSE d.val)

\* parsePrice; null is returned as NaN, which is as falsy
parsePrice(priceText) ==
    IF priceText = <<>> THEN NaN
    ELSE IF DigitsOnly(priceText) = <<>> THEN NaN
    ELSE ParseInt(DigitsOnly(priceText))

\* line 114; the URL is kept by the text it encodes
searchUrl(city) ==
    [base |-> "https://www.zillow.com/homes/", place |-> city.name \o <<COMMA, " ">> \o city.state]

\* lines 134-147 on one property card.  x || null leaves null or a number
\* other than 0: null is kept as 0 (the price too, which line 149 tests)
CardProperty(city, c) ==
    [ source |-> T("zillow_web"),
      address |-> Trim(c.addr),
      price |-> NumOr(parsePrice(c.price), 0),
      beds |-> NumOr(ParseInt(c.beds), 0),
      baths |-> NumOr(ParseFloat(c.baths), 0),
      sqft |-> NumOr(ParseInt(DigitsOnly(c.sqft)), 0),
      link |-> c.href,
      imageUrl |-> c.src,
      city |-> city.name,
      state |-> city.state,
      zipCode |-> city.zip ]

\* line 149
Kept(p) == p.address # <<>> /\ p.price # 0

\* scrapeZillowWeb(city) when the GET of line 116 is answered by page: the
\* requests it made, the properties it returns and by how much it raised
\* stats.sources.zillow.  An error of the request is caught at line 161.
scrapeZillowWeb(city, page) ==
    IF ~page.ok
    THEN [requests |-> <<searchUrl(city)>>, properties |-> <<>>, counted |-> 0]
    ELSE LET properties ==
                 SelectSeq([i \in 1..Len(page.cards) |-> CardProperty(city, page.cards[i])],
                           Kept)
         IN  [requests |-> <<searchUrl(city)>>, properties |-> properties,
              counted |-> Len(properties)]

\* lines 449-451 without the test of line 449
FallbackNever(city, properties, s) == [props |-> properties, rng |-> s]

\* lines 449-451
Fallback(city, properties, s) ==
    IF Len(properties) = 0 THEN generateSampleProperties(city, Num(10), s)
    ELSE [props |-> properties, rng |-> s]

\* One iteration of the loop of lines 432-463: page is what Zillow answers,
\* fault = "push" the engine's error on the spread call of line 453, which
\* the catch of line 459 counts.  scrapeZillowWeb catches its own errors, so
\* the catch of line 444 has nothing to catch here.
CityStep(city, page, fault, s, st) ==
    LET z == scrapeZillowWeb(city, page)
        counted == [st EXCEPT !.sources.zillow = @ + z.counted]
        f == Fallback(city, z.properties, s)
        visit == [ city |-> city.name, requests |-> z.requests, failed |-> ~page.ok,
                   found |-> Len(z.properties),
                   samples |-> IF Len(z.properties) = 0 THEN Len(f.props) ELSE 0,
                   added |-> IF fault = "push" THEN 0 ELSE Len(f.props),
                   error |-> fault = "push" ]
    IN  IF fault = "push"
        THEN [ added |-> <<>>, rng |-> f.rng, visit |-> visit,
               stats |-> [counted EXCEPT !.failed = @ + 1] ]
        ELSE [ added |-> f.props, rng |-> f.rng, visit |-> visit,
               stats |-> [counted EXCEPT !.total = @ + Len(f.props),
                                         !.success = @ + Len(f.props)] ]

\* `"${p.x || ''}"` for a number
NumCell(x) == Quoted(IF x = 0 THEN <<>> ELSE NumText(x))

\* the link of a property as text; a sample's link is the base followed by
\* Date.now() and its index
LinkText(p) ==
    IF p.source = T("generated")
    THEN T(p.link.base) \o <<"<now>", "-">> \o NumText(p.link.index)
    ELSE p.link

\* saveToCSV, lines 292-310: a scraped property has no propertyType
saveToCSV(properties) ==
    Join(<< <<"Address", COMMA, "City", COMMA, "State", COMMA, "ZIP", COMMA,
              "Price", COMMA, "Beds", COMMA, "Baths", COMMA, "SqFt", COMMA,
              "Type", COMMA, "Source", COMMA, "Link">> >>
         \o [i \in 1..Len(properties) |->
               LET p == properties[i]
               IN  Join(<< Quoted(p.address), Quoted(p.city), Quoted(p.state),
                           Quoted(p.zipCode), NumCell(p.price), NumCell(p.beds),
                           NumCell(p.baths), NumCell(p.sqft),
                           Quoted(IF "propertyType" \in DOMAIN p THEN p.propertyType
                                  ELSE <<>>),
                           Quoted(p.source), Quoted(LinkText(p)) >>, <<COMMA>>)],
         <<NL>>)

\* lines 466-469: both writes are attempted, and a failed one is only logged
SaveToFiles(properties, writable) ==
    IF writable
    THEN << [file |-> "properties.json", content |-> properties],
            [file |-> "properties.csv", content |-> saveToCSV(properties)] >>
    ELSE <<>>

\* the columns of the INSERT of lines 367-369 but scrapedAt
InsertColumns ==
    { "source", "address", "city", "state", "zipCode", "price", "beds", "baths",
      "sqft", "propertyType", "yearBuilt", "link", "imageUrl" }

\* lines 376-391: a parameter is undefined when the property has no such
\* field, as propertyType and yearBuilt of a scraped one
HasUndefined(p) == \E c \in InsertColumns : c \notin DOMAIN p

\* the row the INSERT makes of a property stamped at: the fourteen values
\* of lines 377-390.  A scraped property has neither propertyType nor
\* yearBuilt, and its row holds NULL there.
RowOf(p, at) ==
    IF HasUndefined(p)
    THEN [ source |-> p.source, address |-> p.address, city |-> p.city,
           state |-> p.state, zipCode |-> p.zipCode, price |-> p.price,
           beds |-> p.beds, baths |-> p.baths, sqft |-> p.sqft, link |-> p.link,
           imageUrl |-> p.imageUrl, scrapedAt |-> at ]
    ELSE [ source |-> p.source, address |-> p.address, city |-> p.city,
           state |-> p.state, zipCode |-> p.zipCode, price |-> p.price,
           beds |-> p.beds, baths |-> p.baths, sqft |-> p.sqft,
           propertyType |-> p.propertyType, yearBuilt |-> p.yearBuilt,
           link |-> p.link, imageUrl |-> p.imageUrl, scrapedAt |-> at ]

\* UNIQUE KEY unique_property (address, city, zipCode), line 357
SameKey(a, b) == a.address = b.address /\ a.city = b.city /\ a.zipCode = b.zipCode

\* INSERT ... ON DUPLICATE KEY UPDATE of lines 367-375 on table tbl:
\* affectedRows is 1 for a new row, 2 for an existing row that changed and
\* 0 for an existing row that already held the values (a connection opened
\* with the FOUND_ROWS flag reports 1 there: only the logged count differs)
Upsert(tbl, row) ==
    LET hits == {i \in 1..Len(tbl) : SameKey(tbl[i], row)}
    IN  IF hits = {} THEN [table |-> Append(tbl, row), affectedRows |-> 1]
        ELSE LET i == CHOOSE h \in hits : TRUE
                 new == [tbl[i] EXCEPT !.price = row.price, !.beds = row.beds,
                                       !.baths = row.baths, !.sqft = row.sqft,
                                       !.scrapedAt = row.scrapedAt]
             IN  [table |-> [tbl EXCEPT ![i] = new],
                  affectedRows |-> IF new = tbl[i] THEN 0 ELSE 2]

\* lines 366-404 on one property, with the table, stats and the two
\* counters in done.  driver = "strict" is a mysql2 that rejects an undefined
\* parameter, "lenient" one that sends it as NULL; the rejection is caught
\* at line 400.
Insert(property, driver, at, done) ==
    IF driver = "strict" /\ HasUndefined(property) THEN done
    ELSE LET u == Upsert(done.table, RowOf(property, at))
         IN  [ table |-> u.table,
               stats |-> IF u.affectedRows = 2
                         THEN [done.stats EXCEPT !.duplicates = @ + 1]
                         ELSE done.stats,
               inserted |-> done.inserted + (IF u.affectedRows = 1 THEN 1 ELSE 0),
               updated |-> done.updated + (IF u.affectedRows = 2 THEN 1 ELSE 0) ]

\* the loop of lines 364-405 over properties lo+1 .. hi, in order (the
\* test on the first half, which always holds, has TLC finish that half
\* before it starts the second)
RECURSIVE Inserts(_, _, _, _, _, _)
Inserts(properties, lo, hi, driver, at, done) ==
    IF hi <= lo THEN done
    ELSE IF hi = lo + 1 THEN Insert(properties[hi], driver, at, done)
    ELSE LET mid == (lo + hi) \div 2
             a == Inserts(properties, lo, mid, driver, at, done)
         IN  IF a.inserted >= 0 THEN Inserts(properties, mid, hi, driver, at, a)
             ELSE a

\* saveToDatabase(properties) at time at, on table tbl.  db is "unset" when
\* DATABASE_URL is not set, "connect" when createConnection fails, "create"
\* when the CREATE TABLE fails, else the driver in use.  connection is the
\* state the connection is left in; logged the line the function ends with.
saveToDatabase(properties, db, at, tbl, st) ==
    CASE db = "unset" ->
           [table |-> tbl, stats |-> st, connection |-> "none", inserted |-> 0,
            updated |-> 0, logged |-> "No database connection string provided"]
      [] db = "connect" ->
           [table |-> tbl, stats |-> st, connection |-> "none", inserted |-> 0,
            updated |-> 0, logged |-> "Database error"]
      [] db = "create" ->
           [table |-> tbl, stats |-> st, connection |-> "open", inserted |-> 0,
            updated |-> 0, logged |-> "Database error"]
      [] OTHER ->
           LET r == Inserts(properties, 0, Len(properties), db, at,
                            [table |-> tbl, stats |-> st, inserted |-> 0,
                             updated |-> 0])
           IN  [table |-> r.table, stats |-> r.stats, connection |-> "closed",
                inserted |-> r.inserted, updated |-> r.updated, logged |-> "Database"]

\* the properties a run collects when the scrape of every city fails
RECURSIVE AllSamples(_, _, _)
AllSamples(cities, i, s) ==
    IF i > Len(cities) THEN <<>>
    ELSE LET g == generateSampleProperties(cities[i], Num(10), s)
         IN  g.props \o AllSamples(cities, i + 1, g.rng)

(***************************************************************************)
(* Inputs                                                                  *)
(***************************************************************************)
Methods == {"GET", "OPTIONS", "POST"}

Faults == {"none", "push", "serialize"}

CityInputs ==
    { Absent, Given(<<>>), Given(T("Orlando")),
      Given(<<"Lake Mary", COMMA, " FL">>) }

LimitInputs ==
    { Absent, Given(<<"0">>), Given(<<"1">>), Given(<<"2">>),
      Given(<<"-", "1">>), Given(<<"a", "b", "c">>), Given(<<"2", ".", "5">>) }

AllInputs == { Absent, Given(T("true")), Given(T("false")) }

FormatInputs == { Absent, Given(T("csv")), Given(T("xml")) }

Queries ==
    [city : CityInputs, limit : LimitInputs, all : AllInputs, format : FormatInputs]

\* requests over the documented maximum of 200 (VERCEL-DEPLOY.md)
LargeRequests ==
    { [method |-> "GET",
       query |-> [city |-> Given(T("Orlando")), limit |-> Given(<<"2", "0", "1">>),
                  all |-> Absent, format |-> f]] : f \in FormatInputs }

Requests == [method : Methods, query : Queries] \cup LargeRequests

\* command lines of node scraper-standalone.cjs
ArgInputs ==
    [city : { Absent, Given(<<"--city", "=">>), Given(<<"--city", "=", "Orlando">>),
              Given(<<"--city", "=", QUOTE, "Palm Bay", QUOTE>>) },
     limit : { Absent, Given(<<"--limit", "=", "0">>), Given(<<"--limit", "=", "2">>),
               Given(<<"--limit", "=", "a", "b", "c">>) }]

NoRequest == [method |-> "", query |-> [city |-> Absent, limit |-> Absent,
                                        all |-> Absent, format |-> Absent]]

\* who loads scraper-standalone.cjs: node, given it as the script, or the
\* require of api/scrape-v2.js
Loaders == {"node", "require"}

\* no iteration of the generator is under study
NoListing == [city |-> <<>>, tape |-> <<>>, made |-> <<>>]

\* values of Math.random(), as numerators over GenDen: both ends of the
\* range and the two sides of each quarter
GenNums ==
    {0, 1, GenDen - 1}
    \cup {j * (GenDen \div 4) + e : j \in 1..3, e \in {0, 1}}

\* the values one iteration draws: the sqft and rate calls (4 and 5) are
\* free, and so are the even- and the odd-numbered ones among the rest,
\* which makes the two calls of the baths line, the two of the hoaFee line
\* and the calls of lotSize and zestimate independent of the others their
\* fields depend on
Tape(a, b, c, e) ==
    [j \in 1..28 |-> CASE j = 4 -> a [] j = 5 -> b [] j % 2 = 0 -> c [] OTHER -> e]

\* no run of main() of index.js
NoBatch ==
    [ pc |-> "off", now |-> 0, i |-> 0, allProperties |-> <<>>, visits |-> <<>>,
      files |-> <<>>, connection |-> "none", inserted |-> 0, updated |-> 0,
      logged |-> "", printed |-> NoStats ]

\* a property card of the page: the texts of its elements
Listed ==
    [ addr |-> <<" ", "1", "2", " ", "O", "a", "k", " ", "S", "t", " ">>,
      price |-> <<"$", "2", "5", "0", ",", "0", "0", "0">>,
      beds |-> <<"3", " ", "b", "d", "s">>,
      baths |-> <<"2", " ", "b", "a">>,
      sqft |-> <<"1", ",", "8", "0", "0", " ", "s", "q", "f", "t">>,
      href |-> T("https://www.zillow.com/homedetails/12-Oak-St/"),
      src |-> T("https://photos.zillowstatic.com/12-Oak-St.jpg") ]

\* a card that shows no price
Unpriced == [Listed EXCEPT !.price = <<"C", "a", "l", "l">>]

\* what the GET of line 116 brings: an error, or a page with its cards
Pages ==
    { [ok |-> FALSE, cards |-> <<>>], [ok |-> TRUE, cards |-> <<>>],
      [ok |-> TRUE, cards |-> <<Listed>>], [ok |-> TRUE, cards |-> <<Unpriced>>] }

CityFaults == {"none", "push"}

Databases == {"unset", "connect", "create", "strict", "lenient"}

\* the table as an earlier run of the scraper left it, whose every city
\* fell back on samples drawn from generator state s
EarlierRun(s) ==
    saveToDatabase(AllSamples(BatchCities, 1, s), "strict", 0, <<>>, NoStats).table

(***************************************************************************)
(* The state machine                                                       *)
(***************************************************************************)
Init ==
    /\ rng \in 0..(RandDen - 1)
    /\ loaded = FALSE
    /\ op = "idle"
    /\ req = NoRequest
    /\ failure = "none"
    /\ sent = <<>>
    /\ calls = <<>>
    /\ generated = <<>>
    /\ files = <<>>
    /\ listing = NoListing
    /\ stats = NoStats
    /\ table = <<>>
    /\ batch = NoBatch

\* the state a run leaves: the request and the runtime error it was served
\* under, what it sent, the generator calls it made, the records it built
\* and the random generator it advanced
Record(name, r, f, o) ==
    /\ op' = name
    /\ req' = r
    /\ failure' = f
    /\ sent' = o.sent
    /\ calls' = o.calls
    /\ generated' = o.generated
    /\ rng' = o.rng

\* scraper-standalone.cjs is loaded, by node as the batch script or by the
\* require of api/scrape-v2.js line 8 in the process that serves the
\* function: line 145 runs main() either way.  A module is loaded once in a
\* process; the batch process ends with main, the serving one stays.
LoadStandalone ==
    /\ op = "idle"
    /\ ~loaded
    /\ \E a \in ArgInputs, writable \in BOOLEAN, by \in Loaders :
          /\ Record("main", NoRequest, "none", Main(a, writable, rng))
          /\ files' = Main(a, writable, rng).files
          /\ loaded' = (by = "require")
    /\ UNCHANGED <<listing, batchVars>>

\* one invocation of the /api/scrape-v2 function
ServeV2 ==
    /\ op = "idle"
    /\ loaded
    /\ \E r \in Requests, f \in Faults : Record("v2", r, f, HandlerV2(r, rng, f))
    /\ UNCHANGED <<files, loaded, listing, batchVars>>

\* one invocation of the /api/scrape function, which is deployed as a
\* function of its own: its process never loads scraper-standalone.cjs, and
\* its handler has no spread call to fail
ServeV1 ==
    /\ op = "idle"
    /\ ~loaded
    /\ \E r \in Requests, f \in Faults \ {"push"} :
          Record("v1", r, f, HandlerV1(r, rng, f))
    /\ UNCHANGED <<files, loaded, listing, batchVars>>

\* the run is over: the response has gone to the client and the process is
\* free for the next one
Complete ==
    /\ op # "idle"
    /\ op' = "idle"
    /\ req' = NoRequest
    /\ failure' = "none"
    /\ sent' = <<>>
    /\ calls' = <<>>
    /\ generated' = <<>>
    /\ files' = <<>>
    /\ UNCHANGED <<rng, loaded, listing, batchVars>>

Next == LoadStandalone \/ ServeV2 \/ ServeV1 \/ Complete

Spec == Init /\ [][Next]_vars

(***************************************************************************)
(* One iteration of generateProperties, for every outcome of its draws     *)
(***************************************************************************)
InitGen ==
    /\ rng = 0
    /\ loaded = FALSE
    /\ op = "idle"
    /\ req = NoRequest
    /\ failure = "none"
    /\ sent = <<>>
    /\ calls = <<>>
    /\ generated = <<>>
    /\ files = <<>>
    /\ listing \in { [city |-> T("Orlando"), tape |-> Tape(a, b, c, e), made |-> <<>>] :
                        a \in GenNums, b \in GenNums, c \in GenNums, e \in GenNums }
    /\ stats = NoStats
    /\ table = <<>>
    /\ batch = NoBatch

\* the loop body runs once on the tape and pushes its record
Generate ==
    /\ listing.tape # <<>>
    /\ listing.made = <<>>
    /\ listing' = [listing EXCEPT
                       !.made = <<PropertyOf(listing.city, listing.tape, GenDen).rec>>]
    /\ UNCHANGED <<httpVars, batchVars>>

NextGen == Generate

SpecGen == InitGen /\ [][NextGen]_vars

(***************************************************************************)
(* node index.js: one run of main()                                        *)
(***************************************************************************)
InitBatch ==
    /\ rng \in 0..(RandDen - 1)
    /\ loaded = FALSE
    /\ op = "idle"
    /\ req = NoRequest
    /\ failure = "none"
    /\ sent = <<>>
    /\ calls = <<>>
    /\ generated = <<>>
    /\ files = <<>>
    /\ listing = NoListing
    /\ stats = NoStats
    /\ table \in {<<>>, EarlierRun(rng)}
    /\ batch = NoBatch

\* lines 418-430
StartBatch ==
    /\ batch.pc = "off"
    /\ batch' = [NoBatch EXCEPT !.pc = "cities", !.now = batch.now + 1, !.i = 1]
    /\ UNCHANGED <<httpVars, listing, stats, table>>

\* what an iteration of the loop leaves
Visited(c) ==
    /\ rng' = c.rng
    /\ stats' = c.stats
    /\ batch' = [batch EXCEPT !.i = @ + 1,
                              !.allProperties = @ \o c.added,
                              !.visits = Append(@, c.visit)]

\* lines 432-463, one city
ProcessCity ==
    /\ batch.pc = "cities"
    /\ batch.i <= Len(BatchCities)
    /\ \E page \in Pages, fault \in CityFaults :
          Visited(CityStep(BatchCities[batch.i], page, fault, rng, stats))
    /\ UNCHANGED <<loaded, op, req, failure, sent, calls, generated, files, listing,
                   table>>

\* lines 465-469
SaveFiles ==
    /\ batch.pc = "cities"
    /\ batch.i > Len(BatchCities)
    /\ \E writable \in BOOLEAN :
          batch' = [batch EXCEPT !.pc = "database",
                                 !.files = SaveToFiles(batch.allProperties, writable)]
    /\ UNCHANGED <<httpVars, listing, stats, table>>

\* what saveToDatabase leaves
Saved(d) ==
    /\ table' = d.table
    /\ stats' = d.stats
    /\ batch' = [batch EXCEPT !.pc = "print", !.connection = d.connection,
                              !.inserted = d.inserted, !.updated = d.updated,
                              !.logged = d.logged]

\* lines 471-473
SaveDatabase ==
    /\ batch.pc = "database"
    /\ \E db \in Databases :
          Saved(saveToDatabase(batch.allProperties, db, batch.now, table, stats))
    /\ UNCHANGED <<httpVars, listing>>

\* lines 475-501
PrintStats ==
    /\ batch.pc = "print"
    /\ batch' = [batch EXCEPT !.pc = "done", !.printed = stats]
    /\ UNCHANGED <<httpVars, listing, stats, table>>

NextBatch == StartBatch \/ ProcessCity \/ SaveFiles \/ SaveDatabase \/ PrintStats

SpecBatch == InitBatch /\ [][NextBatch]_vars

(***************************************************************************)
(* The scheduler of the README: main() run again and again in one process  *)
(***************************************************************************)
InitCron ==
    /\ rng \in 0..(RandDen - 1)
    /\ loaded = FALSE
    /\ op = "idle"
    /\ req = NoRequest
    /\ failure = "none"
    /\ sent = <<>>
    /\ calls = <<>>
    /\ generated = <<>>
    /\ files = <<>>
    /\ listing = NoListing
    /\ stats = NoStats
    /\ table = <<>>
    /\ batch = NoBatch

\* the schedule comes round after a run has ended: the callback is about to
\* call main() again, in the process that holds stats
Schedule ==
    /\ batch.pc = "done"
    /\ batch.now < MaxRuns
    /\ batch' = [NoBatch EXCEPT !.now = batch.now]
    /\ UNCHANGED <<httpVars, listing, stats, table>>

NextCron ==
    StartBatch \/ ProcessCity \/ SaveFiles \/ SaveDatabase \/ PrintStats \/ Schedule

SpecCron == InitCron /\ [][NextCron]_vars

(***************************************************************************)
(* Properties                                                              *)
(***************************************************************************)
DocMaxLimit == 200

Delimiters == {COMMA, QUOTE, NL}

\* the lines of a CSV body after its header line; a body that ends with the
\* header's line feed has none
DataLines(body) ==
    LET lines == Split(body, NL)
    IN  IF Len(lines) = 2 /\ lines[2] = <<>> THEN <<>> ELSE Tail(lines)

HasDelimiter(t) == \E i \in 1..Len(t) : t[i] \in Delimiters

\* no text field of the record holds a comma, a double quote or a line feed
Clean(p) ==
    ~ \/ HasDelimiter(p.propertyId) \/ HasDelimiter(p.mlsId)
      \/ HasDelimiter(p.streetAddress) \/ HasDelimiter(p.city)
      \/ HasDelimiter(p.state) \/ HasDelimiter(p.zipCode)
      \/ HasDelimiter(p.propertyType) \/ HasDelimiter(p.listingStatus)

\* the thirteen columns of the specification for one record: text fields
\* wrapped in double quotes, numeric fields bare
Columns(p) ==
    << Quoted(p.propertyId), Quoted(p.mlsId), Quoted(p.streetAddress),
       Quoted(p.city), Quoted(p.state), Quoted(p.zipCode), NumText(p.price),
       NumText(p.bedrooms), HalvesText(p.bathrooms), NumText(p.sqft),
       Quoted(p.propertyType), NumText(p.yearBuilt), Quoted(p.listingStatus) >>

\* an optional sign followed by decimal digits only
IsIntegerString(cs) ==
    LET ds == IF cs # <<>> /\ cs[1] \in {"-", "+"} THEN Tail(cs) ELSE cs
    IN  ds # <<>> /\ \A i \in 1..Len(ds) : IsDigit(ds[i], 10)

\* the integer such a string denotes
IntegerOf(cs) ==
    LET neg == cs[1] = "-"
        ds == IF cs[1] \in {"-", "+"} THEN Tail(cs) ELSE cs
        v == Digits(ds, 10, 0, 0).val
    IN  IF neg THEN 0 - v ELSE v

\* the request just served by /api/scrape-v2 was a GET
GetV2 == op = "v2" /\ req.method = "GET"

Generator(c) == c.fn = "generateProperties"

\* C1: every call generateProperties(city, count) with an integer count >= 0
\* returned exactly count records (none for count 0), whatever the city.
C1_Cardinality ==
    \A i \in 1..Len(calls) :
        (Generator(calls[i]) /\ ~calls[i].count.nan /\ calls[i].count.val >= 0)
            => calls[i].returned = calls[i].count.val

\* a run of main called the generator with count 0 and got no record, and
\* those are all the records of the run
C1_Witness ==
    /\ op = "main"
    /\ calls # <<>>
    /\ \A i \in 1..Len(calls) : calls[i].count = Num(0) /\ calls[i].returned = 0
    /\ generated = <<>>

\* C2 (as claimed): a GET with all=true and limit=L, L a non-negative
\* integer, answered 200, yields 15 * L records, in 15 segments of L records
\* carrying the roster's cities in declaration order.
C2_AllCitiesOrder ==
    ( /\ GetV2
      /\ AllMode(req.query)
      /\ req.query.limit.present
      /\ IsIntegerString(req.query.limit.val)
      /\ IntegerOf(req.query.limit.val) >= 0
      /\ sent[1].status = 200 )
    => LET L == IntegerOf(req.query.limit.val)
       IN  /\ Len(generated) = 15 * L
           /\ \A i \in 1..15 : \A j \in 1..L :
                  generated[(i - 1) * L + j].city = CITIES[i]

\* C3: a GET that supplies no city (none, or an empty one) and not all=true
\* is answered 400 with a usage field naming both query shapes, and the
\* generator is not called.
C3_UsageError ==
    (GetV2 /\ ~Truthy(req.query.city) /\ ~(req.query.all = Given(T("true"))))
    => /\ Len(sent) = 1
       /\ sent[1].status = 400
       /\ sent[1].kind = "json"
       /\ sent[1].body.usage.single = "/api/scrape-v2?city=Orlando&limit=50"
       /\ sent[1].body.usage.all = "/api/scrape-v2?all=true&limit=10"
       /\ calls = <<>>
       /\ generated = <<>>

\* such a request came with all=false and was refused
C3_Witness ==
    /\ GetV2
    /\ ~req.query.city.present
    /\ req.query.all = Given(T("false"))
    /\ sent[1].status = 400

\* C4 (as claimed): the count passed to the generator is 10 when limit is
\* absent or does not start with a number, and the integer limit denotes
\* when limit is an integer string.
C4_LimitParsing ==
    (GetV2 /\ sent[1].status = 200) =>
        \A i \in 1..Len(calls) :
            LET l == req.query.limit
            IN  /\ (~l.present \/ ParseInt(l.val).nan) => calls[i].count = Num(10)
                /\ (l.present /\ IsIntegerString(l.val))
                       => calls[i].count = Num(IntegerOf(l.val))

\* C5 (as claimed): one request generates at most 200 properties per city.
C5_LimitCeiling ==
    op = "v2" =>
        \A i \in 1..Len(calls) :
            calls[i].count.val <= DocMaxLimit /\ calls[i].returned <= DocMaxLimit

\* C6 (as claimed): a JSON answer of 200 has success = true, count = the
\* length of properties, and city = the requested city in single-city mode
\* and "all" whenever all=true.
C6_JsonEnvelope ==
    (GetV2 /\ sent[1].status = 200 /\ sent[1].kind = "json")
    => /\ sent[1].body.success = TRUE
       /\ sent[1].body.count = Len(sent[1].body.properties)
       /\ sent[1].body.properties = generated
       /\ sent[1].body.city =
              IF AllMode(req.query) THEN T("all") ELSE req.query.city.val

\* the fields of one data line against the record it was made from
RowMatches(fields, p) ==
    /\ fields[1] = Quoted(p.propertyId)
    /\ Clean(p) => fields = Columns(p)

\* the lines of a csv body against the records generated
BodyMatches(header, data, props) ==
    /\ Len(Split(header, COMMA)) = 13
    /\ header \o <<NL>> = csvHeader
    /\ Len(data) = Len(props)
    /\ \A i \in 1..Len(props) : RowMatches(Split(data[i], COMMA), props[i])

\* C7: the body of a csv answer is the header line of 13 columns followed by
\* one line per generated record, in the order generated; a record whose text
\* fields hold no comma, quote or line feed gives 13 comma-delimited fields,
\* the columns of the specification.
C7_CsvRows ==
    (GetV2 /\ sent[1].kind = "send")
    => BodyMatches(Head(Split(sent[1].body, NL)), DataLines(sent[1].body), generated)

\* a csv answer with several records, all clean
C7_Witness ==
    /\ GetV2
    /\ sent[1].kind = "send"
    /\ Len(generated) >= 2
    /\ \A i \in 1..Len(generated) : Clean(generated[i])

\* C8 (as claimed): a csv answer is 200 with Content-Type text/csv and file
\* name properties-<city>.csv in single-city mode, properties-all.csv in
\* all-cities mode, and is no JSON envelope.
C8_CsvHeaders ==
    ( /\ GetV2
      /\ req.query.format = Given(T("csv"))
      /\ sent[1].status = 200 )
    => /\ sent[1].kind = "send"
       /\ sent[1].headers.contentType = "text/csv"
       /\ sent[1].headers.contentDisposition =
              T("attachment; filename=") \o <<QUOTE>> \o T("properties-")
              \o (IF AllMode(req.query) THEN T("all") ELSE req.query.city.val)
              \o T(".csv") \o <<QUOTE>>

\* C9: in both handlers a request whose method is neither GET nor OPTIONS is
\* answered 405 whatever its query, and no generator is called.
C9_MethodNotAllowed ==
    (op \in {"v1", "v2"} /\ req.method \notin {"GET", "OPTIONS"})
    => /\ Len(sent) = 1
       /\ sent[1].status = 405
       /\ calls = <<>>
       /\ generated = <<>>

\* /api/scrape refused a POST that asked for all cities as csv
C9_Witness ==
    /\ op = "v1"
    /\ req.method = "POST"
    /\ req.query.all = Given(T("true"))
    /\ req.query.format = Given(T("csv"))
    /\ sent[1].status = 405

\* C10: OPTIONS on /api/scrape-v2 is answered 200 with an empty body and no
\* generator call, and every response of the handler, whatever its status,
\* carries Access-Control-Allow-Origin: *.
C10_Cors ==
    op = "v2" =>
        /\ Len(sent) = 1
        /\ sent[1].status \in {200, 400, 405, 500}
        /\ sent[1].headers.acao = "*"
        /\ req.method = "OPTIONS" =>
               /\ sent[1].status = 200
               /\ sent[1].kind = "end"
               /\ sent[1].body = <<>>
               /\ calls = <<>>

\* a preflight that also asked for all cities
C10_Witness ==
    /\ op = "v2"
    /\ req.method = "OPTIONS"
    /\ req.query.all = Given(T("true"))
    /\ sent[1].status = 200

\* the message of the error the engine raises at the site named f
MessageOf(f) ==
    IF f = "push" THEN "Maximum call stack size exceeded" ELSE "Invalid string length"

\* the run reached the site where its runtime error is raised: the spread
\* call of the all-cities branch, or the building of the response text of a
\* request that generated records
Threw ==
    \/ failure = "push" /\ AllMode(req.query)
    \/ failure = "serialize" /\ (AllMode(req.query) \/ Truthy(req.query.city))

\* C11: when generation or serialization throws while a GET request to
\* /api/scrape-v2 is served, the one response sent is HTTP 500 with body
\* {success: false, error: <the exception's message>}, and no 200 is sent.
C11_InternalError ==
    (GetV2 /\ Threw) =>
        /\ Len(sent) = 1
        /\ sent[1].status = 500
        /\ sent[1].kind = "json"
        /\ sent[1].body = [success |-> FALSE, error |-> MessageOf(failure)]
        /\ \A i \in 1..Len(sent) : sent[i].status # 200

\* the spread call overflowed when all cities were asked for as csv, after
\* the first city's records had been generated
C11_Witness ==
    /\ GetV2
    /\ failure = "push"
    /\ req.query.all = Given(T("true"))
    /\ req.query.format = Given(T("csv"))
    /\ Len(calls) = 1
    /\ calls[1].returned = 2
    /\ sent[1].status = 500

\* the five-character digit strings
ZipTexts == {NumText(n) : n \in 10000..99999}

\* C12: every record generateProperties produces has bedrooms in 2..5,
\* bathrooms in 1..4 in steps of 0.5 (2..8 half baths), sqft in 1000..3500,
\* yearBuilt in 1980..2023, a zipCode of five digits and one of the four
\* property types, whatever the random draws.
C12_FieldRanges ==
    \A i \in 1..Len(listing.made) :
        LET p == listing.made[i]
        IN  /\ p.bedrooms \in 2..5
            /\ p.bathrooms \in 2..8
            /\ p.sqft \in 1000..3500
            /\ p.yearBuilt \in 1980..2023
            /\ p.zipCode \in ZipTexts
            /\ p.propertyType \in
                   {T("Single Family"), T("Condo"), T("Townhouse"), T("Multi-Family")}

\* a record at the top of every range the draws can reach
C12_Witness ==
    /\ Len(listing.made) = 1
    /\ listing.made[1].bedrooms = 5
    /\ listing.made[1].bathrooms = 7
    /\ listing.made[1].sqft = 3499
    /\ listing.made[1].yearBuilt = 2023
    /\ listing.made[1].propertyType = T("Multi-Family")

\* floor(p * num / den) in exact arithmetic
FloorExact(p, num, den) == (p * num) \div den

\* lotSize, zestimate, rentZestimate and the earlier listed price of a record
\* against its stored price and sqft
RangesConsistent(p) ==
    /\ 2 * p.sqft <= p.lotSize
    /\ p.lotSize <= 5 * p.sqft
    /\ FloorExact(p.price, 95, 100) <= p.zestimate
    /\ p.zestimate <= FloorExact(p.price, 105, 100)
    /\ p.rentZestimate = FloorExact(p.price, 6, 1000)
    /\ p.priceHistory[1].price = p.price
    /\ p.priceHistory[2].price = FloorExact(p.price, 105, 100)

\* C13: every record generateProperties produces is consistent with its own
\* price and sqft: lotSize lies in 2*sqft..5*sqft, zestimate between
\* floor(0.95*price) and floor(1.05*price), rentZestimate is
\* floor(price*0.006), the price history holds price and floor(price*1.05),
\* and the tax history holds floor(price*0.85), floor(price*0.012),
\* floor(price*0.82) and floor(price*0.011).
C13_DerivedFields ==
    \A i \in 1..Len(listing.made) :
        LET p == listing.made[i]
        IN  /\ RangesConsistent(p)
            /\ p.taxHistory[1].value = FloorExact(p.price, 85, 100)
            /\ p.taxHistory[1].tax = FloorExact(p.price, 12, 1000)
            /\ p.taxHistory[2].value = FloorExact(p.price, 82, 100)
            /\ p.taxHistory[2].tax = FloorExact(p.price, 11, 1000)

\* number of records the calls before the j-th returned
RECURSIVE Before(_, _)
Before(log, j) == IF j <= 1 THEN 0 ELSE Before(log, j - 1) + log[j - 1].returned

\* C14: every record a call generateProperties(city, n) returned carries
\* that city string, in the roster or not, state "FL" and listingStatus
\* "FOR_SALE"; so a GET /api/scrape-v2?city=C&limit=n with n > 0 returns n
\* records, all with city C.
C14_CityEcho ==
    /\ (op \in {"v2", "main"} /\ failure # "push") =>
           /\ Len(generated) = Before(calls, Len(calls) + 1)
           /\ \A j \in 1..Len(calls) : \A k \in 1..calls[j].returned :
                  LET p == generated[Before(calls, j) + k]
                  IN  /\ p.city = calls[j].city
                      /\ p.state = T("FL")
                      /\ p.listingStatus = T("FOR_SALE")
    /\ ( /\ GetV2
         /\ ~AllMode(req.query)
         /\ Truthy(req.query.city)
         /\ req.query.limit.present
         /\ IsIntegerString(req.query.limit.val)
         /\ IntegerOf(req.query.limit.val) > 0
         /\ sent[1].status = 200
         /\ sent[1].kind = "json" )
       => /\ Len(sent[1].body.properties) = IntegerOf(req.query.limit.val)
          /\ \A i \in 1..Len(sent[1].body.properties) :
                 sent[1].body.properties[i].city = req.query.city.val

\* two records were returned for a city that is not in the roster and has a
\* comma in its name
C14_Witness ==
    /\ GetV2
    /\ req.query.city = Given(<<"Lake Mary", COMMA, " FL">>)
    /\ req.query.limit = Given(<<"2">>)
    /\ sent[1].status = 200
    /\ sent[1].kind = "json"
    /\ Len(sent[1].body.properties) = 2
    /\ sent[1].body.properties[2].city = <<"Lake Mary", COMMA, " FL">>

\* C15 (as claimed): serving /api/scrape-v2, the loading of the module that
\* exports generateProperties included, writes no file; files are written
\* only by a run of the batch script.
C15_NoSideEffects ==
    (op = "v2" \/ (op = "main" /\ loaded)) => files = <<>>

\* what a response shows of a run: its status, its record count, its city
\* token (in the envelope or in the file name) and the cities of its
\* records in order
Shape(o) ==
    [ status |-> [i \in 1..Len(o.sent) |-> o.sent[i].status],
      count |-> Len(o.generated),
      token |-> [i \in 1..Len(o.sent) |->
                    IF o.sent[i].kind = "json" /\ o.sent[i].status = 200
                    THEN o.sent[i].body.city
                    ELSE o.sent[i].headers.contentDisposition],
      cities |-> [i \in 1..Len(o.generated) |-> o.generated[i].city] ]

Visits == {batch.visits[j] : j \in 1..Len(batch.visits)}

\* C17: in the batch scraper a scrape request that failed was made again,
\* up to the 3 attempts of CONFIG.scraper.retries, before the city fell back
\* on sample data: every city whose request failed shows 3 requests.
C17_Retries ==
    \A v \in Visits : v.failed => Len(v.requests) = retries

\* what main() holds of a city after the loop body ran for it
OfCity(name) == SelectSeq(batch.allProperties, LAMBDA p : p.city = name)

\* C18: for every city main() has gone through without an unexpected
\* error, a scrape that failed or kept no property left exactly 10 generated
\* samples of that city in the results, and the city has at least one
\* property there; once the loop is over every city of the roster has been
\* gone through, in order.
C18_Fallback ==
    /\ \A v \in Visits :
          ~v.error =>
              /\ Len(OfCity(v.city)) >= 1
              /\ (v.failed \/ v.found = 0) =>
                    /\ Len(OfCity(v.city)) = 10
                    /\ \A k \in 1..10 : OfCity(v.city)[k].source = T("generated")
    /\ batch.pc \in {"database", "print", "done"} =>
          /\ Len(batch.visits) = Len(BatchCities)
          /\ \A j \in 1..Len(BatchCities) : batch.visits[j].city = BatchCities[j].name

\* the loop is over: the request for one city failed, the page of another
\* held no property that was kept, and both have their 10 samples
C18_Witness ==
    /\ batch.pc = "database"
    /\ \E v \in Visits, w \in Visits :
          /\ v.failed /\ ~v.error
          /\ ~w.failed /\ w.found = 0 /\ ~w.error
          /\ Len(OfCity(v.city)) = 10
          /\ Len(OfCity(w.city)) = 10

\* at most one row of the table for a key (address, city, zipCode)
OnePerKey(tbl) ==
    \A j \in 1..Len(tbl), k \in 1..Len(tbl) : SameKey(tbl[j], tbl[k]) => j = k

\* C19: saving leaves at most one row per (address, city, zipCode), and a
\* property that is already in the database is skipped: every row the table
\* holds is still there, unchanged, after any step.
C19_DuplicatesSkipped ==
    [][ /\ OnePerKey(table')
        /\ \A j \in 1..Len(table) : j <= Len(table') /\ table'[j] = table[j] ]_vars

\* C20: a GET /api/scrape without the city parameter generates for every
\* city of the roster of index.js, in order, and no city gets more than
\* limit properties (10 when limit is not given).
C20_DefaultAllCities ==
    (op = "v1" /\ req.method = "GET" /\ ~req.query.city.present /\ failure = "none") =>
        /\ Len(calls) = Len(IndexCITIES)
        /\ \A j \in 1..Len(calls) :
              /\ calls[j].city = IndexCITIES[j].name
              /\ calls[j].returned <= NumOr(SampleCount(req.query), 0)

\* C21: every record generateProperties produces has daysOnMarket in 0..89,
\* hoaFee null or in 50..349, three schools (elementary, middle, high, in
\* that order) with ratings in 6..9, four images, and the four agent fields
\* of one and the same entry of the agents roster, whatever the draws.
C21_ListingMetadata ==
    \A i \in 1..Len(listing.made) :
        LET p == listing.made[i]
        IN  /\ p.daysOnMarket \in 0..89
            /\ p.hoaFee.null \/ p.hoaFee.val \in 50..349
            /\ Len(p.schools) = 3
            /\ p.schools[1].name = p.city \o T(" Elementary School")
            /\ p.schools[2].name = p.city \o T(" Middle School")
            /\ p.schools[3].name = p.city \o T(" High School")
            /\ \A j \in 1..3 : p.schools[j].rating \in 6..9
            /\ Len(p.images) = 4
            /\ \E a \in 1..Len(agents) :
                  /\ p.agentName = agents[a].name
                  /\ p.agentPhone = agents[a].phone
                  /\ p.agentEmail = agents[a].email
                  /\ p.brokerName = agents[a].broker

\* a record with the longest time on the market, the highest fee, a school
\* of the highest rating and the last agent of the roster
C21_Witness ==
    /\ Len(listing.made) = 1
    /\ listing.made[1].daysOnMarket = 89
    /\ ~listing.made[1].hoaFee.null
    /\ listing.made[1].hoaFee.val = 349
    /\ listing.made[1].schools[2].rating = 9
    /\ listing.made[1].agentName = agents[4].name

\* C23: every record generateProperties produces has a price that is a
\* multiple of 1000 between 150000 and 1049000, whatever the draws of sqft
\* and of the rate per square foot.
C23_PriceRange ==
    \A i \in 1..Len(listing.made) :
        LET p == listing.made[i]
        IN  /\ p.price % 1000 = 0
            /\ p.price >= 150000
            /\ p.price <= 1049000

\* the largest sqft at the highest rate: the price at the top of the range
C23_Witness ==
    /\ Len(listing.made) = 1
    /\ listing.made[1].sqft = 3499
    /\ listing.made[1].price = 1049000

\* a GET with a city and a limit was served by one of the two variants, for
\* that city alone and with no runtime error
LimitRun ==
    /\ op \in {"v1", "v2"}
    /\ req.method = "GET"
    /\ failure = "none"
    /\ Truthy(req.query.city)
    /\ req.query.limit.present
    /\ ~(op = "v2" /\ AllMode(req.query))

\* C22: for a limit that is a positive integer string both variants return
\* exactly that many records for the city; for a limit that is not an
\* integer string /api/scrape-v2 returns 10 records and /api/scrape a 200
\* response with none.
C22_LimitVariants ==
    LimitRun =>
        LET l == req.query.limit.val
        IN  /\ (IsIntegerString(l) /\ IntegerOf(l) > 0) =>
                  sent[1].status = 200 /\ Len(generated) = IntegerOf(l)
            /\ ~IsIntegerString(l) =>
                  /\ sent[1].status = 200
                  /\ Len(generated) = IF op = "v2" THEN 10 ELSE 0

\* C22 as the code has it: the limit counts by what parseInt reads of it.
\* When that is a positive integer n (for "2.5" it is 2) both variants
\* return n records for the city; when parseInt reads no number
\* /api/scrape-v2 returns 10 records and /api/scrape a 200 response with
\* none.
C22_ParsedLimit ==
    LimitRun =>
        LET n == ParseInt(req.query.limit.val)
        IN  /\ (~n.nan /\ n.val > 0) =>
                  sent[1].status = 200 /\ Len(generated) = n.val
            /\ n.nan =>
                  /\ sent[1].status = 200
                  /\ Len(generated) = IF op = "v2" THEN 10 ELSE 0

\* /api/scrape answered 200 with no record to a limit with no number in it
C22_Witness ==
    /\ LimitRun
    /\ op = "v1"
    /\ req.query.limit.val = <<"a", "b", "c">>
    /\ sent[1].status = 200
    /\ generated = <<>>

\* /api/scrape-v2 served a GET with a city and a negative integer limit,
\* with no runtime error
NegativeLimit ==
    /\ GetV2
    /\ failure = "none"
    /\ Truthy(req.query.city)
    /\ req.query.limit.present
    /\ IsIntegerString(req.query.limit.val)
    /\ IntegerOf(req.query.limit.val) < 0

\* C24: a GET /api/scrape-v2 with a city and a negative integer limit is
\* answered once, with 200: every generator call got the negative count and
\* returned nothing, no record was built, and the JSON body has success =
\* true, count = 0 and no properties (the CSV body is the header alone).
C24_NegativeLimit ==
    NegativeLimit =>
        /\ Len(sent) = 1
        /\ sent[1].status = 200
        /\ calls # <<>>
        /\ \A j \in 1..Len(calls) :
              /\ calls[j].count = Num(IntegerOf(req.query.limit.val))
              /\ calls[j].returned = 0
        /\ generated = <<>>
        /\ sent[1].kind = "json" =>
              /\ sent[1].body.success
              /\ sent[1].body.count = 0
              /\ sent[1].body.properties = <<>>
        /\ sent[1].kind # "json" =>
              /\ req.query.format = Given(T("csv"))
              /\ sent[1].body = csvHeader

\* limit=-1 for one city: the generator was called with -1 and the JSON
\* answer is the empty success
C24_Witness ==
    /\ NegativeLimit
    /\ ~AllMode(req.query)
    /\ Len(calls) = 1
    /\ calls[1].count = Num(0 - 1)
    /\ sent[1].status = 200
    /\ sent[1].kind = "json"
    /\ sent[1].body.count = 0

\* C25: an invocation of the /api/scrape-v2 handler sends exactly one
\* response, with status 200, 400, 405 or 500, and the paths that answer
\* before the generation (OPTIONS, 405, 400) call no generator: generator
\* calls are found only behind the 200 or the 500 of a GET.
C25_OneResponse ==
    op = "v2" =>
        /\ Len(sent) = 1
        /\ sent[1].status \in {200, 400, 405, 500}
        /\ calls # <<>> => req.method = "GET" /\ sent[1].status \in {200, 500}
        /\ generated # <<>> => calls # <<>>

\* the response could not be serialised after the records were generated:
\* the 500 of the catch block is the one response
C25_Witness ==
    /\ op = "v2"
    /\ failure = "serialize"
    /\ calls # <<>>
    /\ Len(sent) = 1
    /\ sent[1].status = 500

\* C26: when saveToDatabase has returned, the connection it opened has been
\* closed, on every path.
C26_ConnectionClosed ==
    batch.pc \in {"print", "done"} => batch.connection # "open"

\* the cities of the run whose processing raised an error
Errors == {j \in 1..Len(batch.visits) : batch.visits[j].error}

\* C27: the statistics a run of main() prints describe that run: total and
\* success are the number of properties the run collected and failed the
\* number of its cities whose processing raised an error, also when main()
\* has run before in the process.
C27_StatsOfRun ==
    batch.pc = "done" =>
        /\ batch.printed.total = Len(batch.allProperties)
        /\ batch.printed.success = Len(batch.allProperties)
        /\ batch.printed.failed = Cardinality(Errors)

====
